---- MODULE Spec2Model ----
(***************************************************************************)
(* Model of update_bundled_db.py: the bundled snap-count database update.  *)
(* Text is a sequence of one-character strings, so that strip, split and   *)
(* int are computed on characters as Python computes them.                 *)
(***************************************************************************)
EXTENDS Integers, Sequences, FiniteSets, TLC

VARIABLES fileExists, hasTable, store, conn, pc, csv_data, fetched, lines,
          player_aggregates, items, exit_code, error, issued,
          preRun, preExists, initStore, lastOk

vars == <<fileExists, hasTable, store, conn, pc, csv_data, fetched, lines,
          player_aggregates, items, exit_code, error, issued,
          preRun, preExists, initStore, lastOk>>

\* ------------------------------------------------------------------ bounds
MaxLines == 3

\* ------------------------------------------------------- program constants
SEASON == 2025
MinColumns == 16

\* --------------------------------------------------------- text primitives
IsSpace(c) == c \in {" ", "\n"}

RECURSIVE lstrip(_)
lstrip(s) == IF s # <<>> /\ IsSpace(Head(s)) THEN lstrip(Tail(s)) ELSE s

RECURSIVE rstrip(_)
rstrip(s) ==
  IF s # <<>> /\ IsSpace(s[Len(s)]) THEN rstrip(SubSeq(s, 1, Len(s) - 1)) ELSE s

\* str.strip()
strip(s) == rstrip(lstrip(s))

\* str.split(sep): always at least one piece
RECURSIVE split(_, _)
split(s, sep) ==
  IF \A i \in 1..Len(s) : s[i] # sep
    THEN <<s>>
    ELSE LET i == CHOOSE k \in 1..Len(s) :
                    s[k] = sep /\ \A j \in 1..(k - 1) : s[j] # sep
         IN  <<SubSeq(s, 1, i - 1)>> \o split(SubSeq(s, i + 1, Len(s)), sep)

IsDigit(c) == c \in {"0", "1", "2", "3", "4", "5", "6", "7", "8", "9"}

DigitVal(c) ==
  CASE c = "0" -> 0 [] c = "1" -> 1 [] c = "2" -> 2 [] c = "3" -> 3
    [] c = "4" -> 4 [] c = "5" -> 5 [] c = "6" -> 6 [] c = "7" -> 7
    [] c = "8" -> 8 [] c = "9" -> 9

RECURSIVE DigitsValue(_)
DigitsValue(s) ==
  IF s = <<>> THEN 0
  ELSE 10 * DigitsValue(SubSeq(s, 1, Len(s) - 1)) + DigitVal(s[Len(s)])

\* int(text): optional sign then decimal digits; anything else is ValueError
int(s) ==
  LET t    == strip(s)
      body == IF t # <<>> /\ Head(t) \in {"+", "-"} THEN Tail(t) ELSE t
  IN  IF body = <<>> \/ \E i \in 1..Len(body) : ~IsDigit(body[i])
        THEN [ok |-> FALSE, val |-> 0]
        ELSE [ok |-> TRUE,
              val |-> IF Head(t) = "-" THEN 0 - DigitsValue(body)
                                       ELSE DigitsValue(body)]

\* int(columns[k].strip() or 0)
SnapValue(field) ==
  LET t == strip(field)
  IN  IF t = <<>> THEN [ok |-> TRUE, val |-> 0] ELSE int(t)

\* columns[k] with Python's 0-based index
Col(columns, k) == columns[k + 1]

\* key = f"{player_id}_{team}"
Key(player_id, team) == player_id \o <<"_">> \o team

\* lines = csv_data.strip().split('\n'); the loop runs over lines[1:]
DataLines(text) == Tail(split(strip(text), "\n"))

IsBlank(line) == strip(line) = <<>>

\* variant: threshold off by one
TooFewColumnsOffByOne(columns) == Len(columns) < MinColumns - 1

TooFewColumns(columns) == Len(columns) < MinColumns

\* ------------------------------------------------------------- aggregation
HasKey(aggs, k) == \E i \in 1..Len(aggs) : aggs[i].key = k

KeyIndex(aggs, k) == CHOOSE i \in 1..Len(aggs) : aggs[i].key = k

\* variant: a seen key takes the current row's name, team and position
MergedLastWins(existing, name, pid, pos, team, off, def, st) ==
  [player_id     |-> existing.player_id,
   player_name   |-> name,
   team          |-> team,
   position      |-> pos,
   offense_snaps |-> existing.offense_snaps + off,
   defense_snaps |-> existing.defense_snaps + def,
   st_snaps      |-> existing.st_snaps + st]

\* the tuple stored when the key is already in the dict
Merged(existing, name, pid, pos, team, off, def, st) ==
  [player_id     |-> existing.player_id,
   player_name   |-> existing.player_name,
   team          |-> existing.team,
   position      |-> existing.position,
   offense_snaps |-> existing.offense_snaps + off,
   defense_snaps |-> existing.defense_snaps + def,
   st_snaps      |-> existing.st_snaps + st]

\* the tuple stored for a new key
Fresh(name, pid, pos, team, off, def, st) ==
  [player_id     |-> pid,
   player_name   |-> name,
   team          |-> team,
   position      |-> pos,
   offense_snaps |-> off,
   defense_snaps |-> def,
   st_snaps      |-> st]

\* one iteration of the parsing loop; ok = FALSE is the uncaught ValueError
ProcessLine(aggs, line) ==
  IF IsBlank(line) THEN [ok |-> TRUE, aggs |-> aggs]
  ELSE
    LET columns == split(line, ",") IN
    IF TooFewColumns(columns) THEN [ok |-> TRUE, aggs |-> aggs]
    ELSE
      LET name == strip(Col(columns, 5))
          pid  == strip(Col(columns, 6))
          pos  == strip(Col(columns, 7))
          team == strip(Col(columns, 8))
          off  == SnapValue(Col(columns, 10))
          def  == SnapValue(Col(columns, 12))
          st   == SnapValue(Col(columns, 14))
          k    == Key(pid, team)
      IN
      IF ~(off.ok /\ def.ok /\ st.ok) THEN [ok |-> FALSE, aggs |-> aggs]
      ELSE IF HasKey(aggs, k)
        THEN LET i == KeyIndex(aggs, k) IN
             [ok   |-> TRUE,
              aggs |-> [aggs EXCEPT ![i].player =
                          Merged(aggs[i].player, name, pid, pos, team,
                                 off.val, def.val, st.val)]]
        ELSE [ok   |-> TRUE,
              aggs |-> Append(aggs,
                         [key |-> k,
                          player |-> Fresh(name, pid, pos, team,
                                           off.val, def.val, st.val)])]

\* the whole parsing loop as a function of the text
RECURSIVE Fold(_, _)
Fold(aggs, ls) ==
  IF ls = <<>> THEN [ok |-> TRUE, aggs |-> aggs]
  ELSE LET r == ProcessLine(aggs, Head(ls))
       IN  IF r.ok THEN Fold(r.aggs, Tail(ls)) ELSE [ok |-> FALSE, aggs |-> <<>>]

Aggregate(text) == Fold(<<>>, DataLines(text))

\* ------------------------------------------------------------------- store
\* variant: the delete is left out
DeleteNothing(table) == table

\* variant: the WHERE clause is left out
DeleteAll(table) == SelectSeq(table, LAMBDA r : FALSE)

\* DELETE FROM snap_counts WHERE season = 2025
DeleteSeason(table) == SelectSeq(table, LAMBDA r : r.season # SEASON)

\* INSERT ... VALUES (?, ?, 2025, ?, ?, ?, ?, ?)
InsertRow(player) ==
  [player_id     |-> player.player_id,
   player_name   |-> player.player_name,
   season        |-> SEASON,
   team          |-> player.team,
   position      |-> player.position,
   offense_snaps |-> player.offense_snaps,
   defense_snaps |-> player.defense_snaps,
   st_snaps      |-> player.st_snaps]

\* variant: autocommit, every statement is persisted at once
ExecuteAutocommit(persisted, newTable) == newTable

\* a statement executed on the connection runs inside the implicit
\* transaction: the persisted content stays as it is until commit
ExecutePersist(persisted, newTable) == persisted

\* variant: the pending transaction is committed on the way out
AbortCommits(persisted, working) == working

\* the process ends without commit: the open transaction is rolled back
AbortPersist(persisted, working) == persisted

\* variant: the existence check is left out
PathNeverMissing(exists) == FALSE

\* if not os.path.exists(DB_PATH)
PathMissing(exists) == ~exists

Closed == [open |-> FALSE, table |-> <<>>]

\* ------------------------------------------------------------------ inputs
LineBlank == <<" ">>
\* 15 fields, non-numeric text at index 10
LineShort == <<",", ",", ",", ",", ",", "n", ",", "a", ",", "q", ",", "c",
               ",", ",", "x", ",", ",", ",", ",">>
\* name m, id a, pos q, team b_c, off 1, def empty, st 2
LineA == <<",", ",", ",", ",", ",", "m", ",", "a", ",", "q", ",",
           "b", "_", "c", ",", ",", "1", ",", ",", ",", ",", "2", ",">>
\* name n, id a_b, pos r, team c, off " 3", def 1, st empty
LineB == <<",", ",", ",", ",", ",", "n", ",", "a", "_", "b", ",", "r", ",",
           "c", ",", ",", " ", "3", ",", ",", "1", ",", ",", ",">>
\* name n, id a, pos r, team b_c, off -2, def 0, st 10
LineC == <<",", ",", ",", ",", ",", "n", ",", "a", ",", "r", ",",
           "b", "_", "c", ",", ",", "-", "2", ",", ",", "0", ",", ",",
           "1", "0", ",">>
\* 16 fields, non-numeric text at index 12
LineBad == <<",", ",", ",", ",", ",", "n", ",", "a", ",", "q", ",", "c",
             ",", ",", "4", ",", ",", "x", ",", ",", ",", ",">>

\* name k, id d, pos q, team c, off +5, def 0, st empty; 17 fields
LineD == <<",", ",", ",", ",", ",", "k", ",", "d", ",", "q", ",", "c",
           ",", ",", "+", "5", ",", ",", "0", ",", ",", ",", ",">>

LineSet == {LineBlank, LineShort, LineA, LineB, LineC, LineD, LineBad}

RECURSIVE Join(_)
Join(ls) ==
  IF ls = <<>> THEN <<>>
  ELSE IF Len(ls) = 1 THEN ls[1]
  ELSE ls[1] \o <<"\n">> \o Join(Tail(ls))

LineSeqs == UNION {[1..n -> LineSet] : n \in 0..MaxLines}

Old2024 == [player_id |-> <<"z">>, player_name |-> <<"Z">>, season |-> 2024,
            team |-> <<"t">>, position |-> <<"p">>,
            offense_snaps |-> 7, defense_snaps |-> 0, st_snaps |-> 1]
Old2025 == [player_id |-> <<"a">>, player_name |-> <<"Y">>, season |-> 2025,
            team |-> <<"c">>, position |-> <<"p">>,
            offense_snaps |-> 2, defense_snaps |-> 2, st_snaps |-> 2]

InitTables == {<<>>, <<Old2025, Old2024, Old2025>>}

\* -------------------------------------------------------------------- Init
Init ==
  /\ \E cfg \in {[e |-> FALSE, t |-> FALSE, s |-> <<>>],
                 [e |-> TRUE, t |-> FALSE, s |-> <<>>]}
             \cup {[e |-> TRUE, t |-> TRUE, s |-> tb] : tb \in InitTables} :
        /\ fileExists = cfg.e
        /\ hasTable = cfg.t
        /\ store = cfg.s
        /\ initStore = cfg.s
        /\ preRun = cfg.s
        /\ preExists = cfg.e
  /\ conn = Closed
  /\ pc = "idle"
  /\ csv_data = <<>>
  /\ fetched = FALSE
  /\ lines = <<>>
  /\ player_aggregates = <<>>
  /\ items = <<>>
  /\ exit_code = -1
  /\ error = "none"
  /\ issued = <<>>
  /\ lastOk = FALSE

\* ----------------------------------------------------------------- actions
BeginRun ==
  /\ pc = "idle"
  /\ preRun' = store
  /\ preExists' = fileExists
  /\ lastOk' = (exit_code = 0)
  /\ issued' = <<>>
  /\ lines' = <<>>
  /\ player_aggregates' = <<>>
  /\ items' = <<>>

\* main(): csv_data = download_csv() succeeds with some text
Download ==
  /\ ~fetched
  /\ BeginRun
  /\ \E ls \in LineSeqs : csv_data' = Join(ls)
  /\ fetched' = TRUE
  /\ pc' = "check"
  /\ exit_code' = -1
  /\ error' = "none"
  /\ UNCHANGED <<fileExists, hasTable, store, conn, initStore>>

\* download_csv() fails: sys.exit(1) before update_database is entered
DownloadFail ==
  /\ ~fetched
  /\ BeginRun
  /\ pc' = "exited"
  /\ exit_code' = 1
  /\ error' = "DownloadError"
  /\ UNCHANGED <<fileExists, hasTable, store, conn, csv_data, fetched,
                 initStore>>

\* the script is run again and the download returns the same text
Rerun ==
  /\ fetched
  /\ BeginRun
  /\ pc' = "check"
  /\ exit_code' = -1
  /\ error' = "none"
  /\ UNCHANGED <<fileExists, hasTable, store, conn, csv_data, fetched,
                 initStore>>

CheckPath ==
  /\ pc = "check"
  /\ IF PathMissing(fileExists)
       THEN /\ pc' = "exited"
            /\ exit_code' = 1
            /\ error' = "DatabaseNotFound"
       ELSE /\ pc' = "connect"
            /\ UNCHANGED <<exit_code, error>>
  /\ UNCHANGED <<fileExists, hasTable, store, conn, csv_data, fetched, lines,
                 player_aggregates, items, issued, preRun, preExists,
                 initStore, lastOk>>

\* sqlite3.connect(DB_PATH) creates the file when it is not there
Connect ==
  /\ pc = "connect"
  /\ fileExists' = TRUE
  /\ conn' = [open |-> TRUE, table |-> store]
  /\ pc' = "delete"
  /\ UNCHANGED <<hasTable, store, csv_data, fetched, lines, player_aggregates,
                 items, exit_code, error, issued, preRun, preExists,
                 initStore, lastOk>>

\* cursor.execute("DELETE FROM snap_counts WHERE season = 2025")
Delete ==
  /\ pc = "delete"
  /\ IF ~hasTable
       THEN /\ pc' = "exited"
            /\ exit_code' = 1
            /\ error' = "OperationalError"
            /\ store' = AbortPersist(store, conn.table)
            /\ conn' = Closed
            /\ UNCHANGED issued
       ELSE /\ conn' = [conn EXCEPT !.table = DeleteSeason(conn.table)]
            /\ store' = ExecutePersist(store, DeleteSeason(conn.table))
            /\ issued' = Append(issued, "DELETE")
            /\ pc' = "split"
            /\ UNCHANGED <<exit_code, error>>
  /\ UNCHANGED <<fileExists, hasTable, csv_data, fetched, lines,
                 player_aggregates, items, preRun, preExists, initStore,
                 lastOk>>

\* lines = csv_data.strip().split('\n'); player_aggregates = {}
SplitLines ==
  /\ pc = "split"
  /\ lines' = DataLines(csv_data)
  /\ player_aggregates' = <<>>
  /\ pc' = "parse"
  /\ UNCHANGED <<fileExists, hasTable, store, conn, csv_data, fetched, items,
                 exit_code, error, issued, preRun, preExists, initStore,
                 lastOk>>

\* one iteration of "for line in lines[1:]"
ParseLine ==
  /\ pc = "parse"
  /\ lines # <<>>
  /\ LET r == ProcessLine(player_aggregates, Head(lines)) IN
       IF r.ok
         THEN /\ player_aggregates' = r.aggs
              /\ lines' = Tail(lines)
              /\ UNCHANGED <<pc, exit_code, error, store, conn>>
         ELSE /\ pc' = "exited"
              /\ exit_code' = 1
              /\ error' = "ValueError"
              /\ store' = AbortPersist(store, conn.table)
              /\ conn' = Closed
              /\ UNCHANGED <<player_aggregates, lines>>
  /\ UNCHANGED <<fileExists, hasTable, csv_data, fetched, items, issued,
                 preRun, preExists, initStore, lastOk>>

\* the loop is over: iterate player_aggregates.items()
ParseDone ==
  /\ pc = "parse"
  /\ lines = <<>>
  /\ items' = player_aggregates
  /\ pc' = "insert"
  /\ UNCHANGED <<fileExists, hasTable, store, conn, csv_data, fetched, lines,
                 player_aggregates, exit_code, error, issued, preRun,
                 preExists, initStore, lastOk>>

\* cursor.execute(insert_query, player)
Insert ==
  /\ pc = "insert"
  /\ items # <<>>
  /\ LET newTable == Append(conn.table, InsertRow(Head(items).player)) IN
       /\ conn' = [conn EXCEPT !.table = newTable]
       /\ store' = ExecutePersist(store, newTable)
  /\ items' = Tail(items)
  /\ issued' = Append(issued, "INSERT")
  /\ UNCHANGED <<fileExists, hasTable, pc, csv_data, fetched, lines,
                 player_aggregates, exit_code, error, preRun, preExists,
                 initStore, lastOk>>

\* conn.commit(); conn.close()
Commit ==
  /\ pc = "insert"
  /\ items = <<>>
  /\ store' = conn.table
  /\ conn' = Closed
  /\ pc' = "done"
  /\ exit_code' = 0
  /\ UNCHANGED <<fileExists, hasTable, csv_data, fetched, lines,
                 player_aggregates, items, error, issued, preRun,
                 preExists, initStore, lastOk>>

\* an insert or the commit raises (disk full, permission): uncaught
StoreFailure ==
  /\ pc = "insert"
  /\ pc' = "exited"
  /\ exit_code' = 1
  /\ error' = "StoreFailure"
  /\ store' = AbortPersist(store, conn.table)
  /\ conn' = Closed
  /\ UNCHANGED <<fileExists, hasTable, csv_data, fetched, lines,
                 player_aggregates, items, issued, preRun, preExists,
                 initStore, lastOk>>

\* the process has ended
Finish ==
  /\ pc \in {"done", "exited"}
  /\ pc' = "idle"
  /\ UNCHANGED <<fileExists, hasTable, store, conn, csv_data, fetched, lines,
                 player_aggregates, items, exit_code, error, issued,
                 preRun, preExists, initStore, lastOk>>

Next ==
  \/ Download
  \/ DownloadFail
  \/ Rerun
  \/ CheckPath
  \/ Connect
  \/ Delete
  \/ SplitLines
  \/ ParseLine
  \/ ParseDone
  \/ Insert
  \/ Commit
  \/ StoreFailure
  \/ Finish

Spec == Init /\ [][Next]_vars

TypeOK ==
  /\ fileExists \in BOOLEAN
  /\ hasTable \in BOOLEAN
  /\ pc \in {"idle", "check", "connect", "delete", "split", "parse", "insert",
             "done", "exited"}
  /\ exit_code \in {-1, 0, 1}

\* ------------------------------------------------- vocabulary of the claims
SeasonRows(table) == SelectSeq(table, LAMBDA r : r.season = 2025)

OtherRows(table) == SelectSeq(table, LAMBDA r : r.season # 2025)

Count(table, r) == Cardinality({i \in 1..Len(table) : table[i] = r})

Elems(table) == {table[i] : i \in 1..Len(table)}

\* the same rows with the same multiplicities, whatever their order and ids
SameRows(t1, t2) ==
  \A r \in Elems(t1) \cup Elems(t2) : Count(t1, r) = Count(t2, r)

RECURSIVE Sum(_)
Sum(ints) == IF ints = <<>> THEN 0 ELSE Head(ints) + Sum(Tail(ints))

\* the fields of one raw row, read at the positions of section 6 of the spec
RowFields(line) ==
  LET c == split(line, ",")
  IN  [name |-> strip(c[6]), pid |-> strip(c[7]), pos |-> strip(c[8]),
       team |-> strip(c[9]),
       off |-> SnapValue(c[11]).val, def |-> SnapValue(c[13]).val,
       st |-> SnapValue(c[15]).val]

ShortOrBlank(line) == strip(line) = <<>> \/ Len(split(line, ",")) < 16

\* the raw rows the run accepts, in input order
AcceptedRows(text) ==
  LET ls == SelectSeq(DataLines(text), LAMBDA l : ~ShortOrBlank(l))
  IN  [i \in 1..Len(ls) |-> RowFields(ls[i])]

RowsOfPair(text, pid, team) ==
  SelectSeq(AcceptedRows(text), LAMBDA r : r.pid = pid /\ r.team = team)

RowsOfKey(text, k) ==
  SelectSeq(AcceptedRows(text), LAMBDA r : r.pid \o <<"_">> \o r.team = k)

Offs(rows) == [i \in 1..Len(rows) |-> rows[i].off]
Defs(rows) == [i \in 1..Len(rows) |-> rows[i].def]
Sts(rows) == [i \in 1..Len(rows) |-> rows[i].st]

\* the script has been started at least once
RunStarted == pc # "idle" \/ exit_code # -1

\* the parsing loop has run to its end without error
ParsedAll == pc \in {"insert", "done"}

\* the parsing loop has just ended, normally or by the ValueError
ParseJustOver ==
  \/ pc = "insert" /\ issued = <<"DELETE">>
  \/ pc = "exited" /\ error = "ValueError"

Outcome ==
  IF ParsedAll THEN [ok |-> TRUE, aggs |-> player_aggregates]
               ELSE [ok |-> FALSE, aggs |-> <<>>]

RawLines == split(csv_data, "\n")

RemoveAt(ls, i) == SubSeq(ls, 1, i - 1) \o SubSeq(ls, i + 1, Len(ls))

ReplaceAt(ls, i, l) == [ls EXCEPT ![i] = l]

\* index of the first line that is not whitespace only, 0 when there is none
HeaderIndex(ls) ==
  IF \A i \in 1..Len(ls) : strip(ls[i]) = <<>> THEN 0
  ELSE CHOOSE i \in 1..Len(ls) :
         strip(ls[i]) # <<>> /\ \A j \in 1..(i - 1) : strip(ls[j]) = <<>>

\* -------------------------------------------------------------------- C1
\* C1: after a run that reached commit, the season-2025 rows are exactly one
\* per distinct (player identifier, team) pair of the accepted lines, and no
\* season-2025 row has a pair absent from the input, separator or not.
C1_OneRowPerPair ==
  pc = "done" =>
    LET season == SeasonRows(store)
        acc    == AcceptedRows(csv_data)
        pairs  == {<<acc[i].pid, acc[i].team>> : i \in 1..Len(acc)}
    IN  /\ \A p \in pairs :
             Cardinality({i \in 1..Len(season) :
                <<season[i].player_id, season[i].team>> = p}) = 1
        /\ \A i \in 1..Len(season) :
             <<season[i].player_id, season[i].team>> \in pairs

\* -------------------------------------------------------------------- C2
\* C2: each numeric field of an aggregate record is the sum of that field
\* over exactly the accepted rows whose (identifier, team) pair is the
\* record's pair, an empty field counting 0.
C2_SumsPerPair ==
  ParsedAll =>
    \A i \in 1..Len(player_aggregates) :
      LET rec  == player_aggregates[i].player
          rows == RowsOfPair(csv_data, rec.player_id, rec.team)
      IN  /\ rec.offense_snaps = Sum(Offs(rows))
          /\ rec.defense_snaps = Sum(Defs(rows))
          /\ rec.st_snaps = Sum(Sts(rows))

\* -------------------------------------------------------------------- C3
\* C3 as stated: name and position of an aggregate record are those of the
\* last accepted row of its (identifier, team) pair.
C3_LastRowWins ==
  ParsedAll =>
    \A i \in 1..Len(player_aggregates) :
      LET rec  == player_aggregates[i].player
          rows == RowsOfPair(csv_data, rec.player_id, rec.team)
      IN  /\ rec.player_name = rows[Len(rows)].name
          /\ rec.position = rows[Len(rows)].pos

\* C3 amended: identifier, name, team and position of an aggregate record
\* are those of the first accepted row whose composite key string is the
\* record's key; every later row of that key only adds its three numbers.
C3_FirstRowWins ==
  ParsedAll =>
    \A i \in 1..Len(player_aggregates) :
      LET rec  == player_aggregates[i].player
          rows == RowsOfKey(csv_data, player_aggregates[i].key)
      IN  /\ rows # <<>>
          /\ rec.player_id = rows[1].pid
          /\ rec.player_name = rows[1].name
          /\ rec.team = rows[1].team
          /\ rec.position = rows[1].pos
          /\ rec.offense_snaps = Sum(Offs(rows))
          /\ rec.defense_snaps = Sum(Defs(rows))
          /\ rec.st_snaps = Sum(Sts(rows))

C3_Witness ==
  /\ ParsedAll
  /\ \E i \in 1..Len(player_aggregates) :
       LET rows == RowsOfKey(csv_data, player_aggregates[i].key)
       IN  /\ Len(rows) >= 2
           /\ rows[1].name # rows[Len(rows)].name
           /\ rows[1].pos # rows[Len(rows)].pos

\* -------------------------------------------------------------------- C4
\* C4: when the run is repeated with the same input after a successful run,
\* the season-2025 rows at the end of the second run are those left by the
\* first, compared by content and not by row id.
C4_Idempotent ==
  (pc \in {"done", "exited"} /\ lastOk) =>
    SameRows(SeasonRows(store), SeasonRows(preRun))

C4_Witness ==
  /\ pc = "done"
  /\ lastOk
  /\ Len(SeasonRows(store)) >= 2
  /\ ~SameRows(SeasonRows(store), SeasonRows(initStore))

\* -------------------------------------------------------------------- C5
\* C5: the persisted content is always the content before the run or the
\* fully replaced content (other seasons kept, one row per aggregate
\* record of the whole input), never something in between.
C5_AllOrNothing ==
  \/ store = preRun
  \/ LET a == Aggregate(csv_data)
     IN  /\ a.ok
         /\ store = OtherRows(preRun) \o
                      [i \in 1..Len(a.aggs) |-> InsertRow(a.aggs[i].player)]

C5_Witness ==
  /\ pc = "exited"
  /\ error = "StoreFailure"
  /\ Len(issued) >= 2
  /\ items # <<>>
  /\ SeasonRows(preRun) # <<>>

\* -------------------------------------------------------------------- C6
\* C6: a run that starts without the store file, or with a store that has
\* no snap_counts table, ends with exit code 1, never reaches parsing,
\* inserting or commit, creates no file and leaves the rows as they were.
C6_NoStoreNoWrites ==
  (RunStarted /\ (~preExists \/ ~hasTable)) =>
    /\ pc \in {"idle", "check", "connect", "delete", "exited"}
    /\ (pc \in {"idle", "exited"} => exit_code = 1)
    /\ fileExists = preExists
    /\ store = preRun
    /\ issued = <<>>

C6_Witness ==
  /\ pc = "exited"
  /\ error = "DatabaseNotFound"
  /\ ~fileExists
  /\ csv_data # <<>>

\* -------------------------------------------------------------------- C7
\* C7 as stated: when the run aborts on non-numeric text in a numeric
\* column, no statement has been issued against the store yet.
C7_NothingIssued ==
  (pc = "exited" /\ error = "ValueError") => issued = <<>>

\* C7 amended: at that abort the season delete has been issued inside the
\* transaction that is never committed, no insert has been issued, and the
\* persisted content is the content before the run.
C7_DeleteOnlyUncommitted ==
  (pc = "exited" /\ error = "ValueError") =>
    /\ issued = <<"DELETE">>
    /\ store = preRun
    /\ exit_code = 1

C7_Witness ==
  /\ pc = "exited"
  /\ error = "ValueError"
  /\ player_aggregates # <<>>
  /\ SeasonRows(preRun) # <<>>

\* -------------------------------------------------------------------- C8
\* C8 as stated: the first line of the input is the header, and any other
\* line that is blank or has fewer than 16 fields can be taken out of the
\* input without changing the outcome of parsing.
C8_FirstLineIsHeader ==
  ParseJustOver =>
    \A i \in 2..Len(RawLines) :
      ShortOrBlank(RawLines[i]) =>
        Aggregate(Join(RemoveAt(RawLines, i))) = Outcome

\* C8 amended: the header is the first line that is not whitespace only
\* (the text is stripped before it is split); it is discarded whatever it
\* holds, and any other line that is blank or has fewer than 16 fields can
\* be taken out of the input without changing the outcome and without error.
C8_FirstNonBlankIsHeader ==
  ParseJustOver =>
    LET h == HeaderIndex(RawLines) IN
    /\ \A i \in 1..Len(RawLines) :
         (i # h /\ ShortOrBlank(RawLines[i]) /\ Len(RawLines) > 1) =>
           Aggregate(Join(RemoveAt(RawLines, i))) = Outcome
    /\ h = 0 => Outcome = [ok |-> TRUE, aggs |-> <<>>]
    /\ h # 0 =>
         \A l \in {x \in LineSet : strip(x) # <<>>} :
           Aggregate(Join(ReplaceAt(RawLines, h, l))) = Outcome

C8_Witness ==
  /\ pc = "insert"
  /\ player_aggregates # <<>>
  /\ \E i \in 1..Len(RawLines) :
       /\ i > HeaderIndex(RawLines)
       /\ RawLines[i] = LineShort

\* -------------------------------------------------------------------- C9
\* C9: the three snap counts of every aggregate record and of every
\* season-2025 row are greater than or equal to 0.
C9_NonNegative ==
  /\ \A i \in 1..Len(player_aggregates) :
       /\ player_aggregates[i].player.offense_snaps >= 0
       /\ player_aggregates[i].player.defense_snaps >= 0
       /\ player_aggregates[i].player.st_snaps >= 0
  /\ \A r \in Elems(SeasonRows(store)) :
       r.offense_snaps >= 0 /\ r.defense_snaps >= 0 /\ r.st_snaps >= 0

\* ------------------------------------------------------------------- C10
\* C10: the rows of other seasons are, persisted and inside the open
\* transaction alike, those of the store before the first run, so every
\* row a run adds carries season 2025.
C10_OtherSeasonsKept ==
  /\ OtherRows(store) = OtherRows(initStore)
  /\ conn.open => OtherRows(conn.table) = OtherRows(initStore)

C10_Witness ==
  /\ pc = "done"
  /\ lastOk
  /\ OtherRows(store) # <<>>
  /\ Len(SeasonRows(store)) >= 2
====
